---- MODULE Spec2Model ----
(***************************************************************************)
(* A model of eccodes_grib/dataset.py: the assembly of GRIB records into   *)
(* variables (DataVariable), the merge of the variables into a dataset     *)
(* (build_dataset_components) and the lazy materialization of a variable's *)
(* array (DataArray.data, DataVariable.build_array).                       *)
(*                                                                         *)
(* The stream and its index (module `messages`) are modelled from the      *)
(* design document: a stream is the sequence of the file's records, a      *)
(* record's byte offset is its position in that sequence, and the index    *)
(* maps each distinct header to the offsets of the records carrying it.    *)
(* A header is a record of the model (key |-> value) where the code holds  *)
(* a tuple in index_keys order; header[key] stands for                     *)
(* header_values[index_keys.index(key)].                                   *)
(* Positions in sequences are 1-based where Python's are 0-based.          *)
(***************************************************************************)
EXTENDS Integers, Sequences, FiniteSets, TLC

VARIABLES
    file,       \* the records of the GRIB file, in scan order
    dataset,    \* outcome of build_dataset_components(stream)
    asked,      \* the paramId handed to DataVariable.fromstream
    var,        \* outcome of DataVariable.fromstream(paramId, path)
    cache,      \* the variable's _data attribute
    builds,     \* number of runs of build_array on the variable
    accesses,   \* number of accesses to the variable's data
    ret,        \* what the latest access returned or raised
    eu          \* outcome of a direct call of enforce_unique_attributes

vars == <<file, dataset, asked, var, cache, builds, accesses, ret, eu>>

----------------------------------------------------------------------------
(* Bounds of the model *)

MaxRecsDims == 5      \* records of a file of the family FilesDims
MaxRecsArray == 3     \* records of a file of the families FilesArray, FilesDup
MaxRecsNames == 3     \* records of a file of the family FilesNames
MaxRecsCoord == 2     \* records of a file of the family FilesCoord
MaxAccess == 2        \* accesses to one variable's data

----------------------------------------------------------------------------
(* Sentinels and constants of the program *)

Undef == -1                     \* the header value 'undef'
NaN == -2                       \* np.nan
DefaultMissingValue == 9999
VERSION == "eccodes_grib-version"

GLOBAL_ATTRIBUTES_KEYS == <<"edition", "centre", "centreDescription">>

VARIABLE_ATTRIBUTES_KEYS ==
    <<"paramId", "shortName", "units", "name", "cfName", "missingValue">>

SPATIAL_COORDINATES_ATTRIBUTES_KEYS == <<"gridType", "numberOfPoints">>

\* Two of the six grid types of the program's table; the others are alike.
GridTypes == {"reduced_gg", "sh"}

GRID_TYPE_MAP ==
    [g \in GridTypes |->
        IF g = "reduced_gg" THEN <<"N", "pl">> ELSE <<"M", "K", "J">>]

GRID_TYPE_KEYS == {"N", "pl", "M", "K", "J"}

HEADER_COORDINATES_MAP ==
    << [key |-> "number",   attrs |-> <<"totalNumber">>],
       [key |-> "dataDate", attrs |-> << >>],
       [key |-> "dataTime", attrs |-> << >>],
       [key |-> "endStep",  attrs |-> <<"stepUnits", "stepType">>],
       [key |-> "topLevel", attrs |-> <<"typeOfLevel">>] >>

Range(s) == {s[i] : i \in 1..Len(s)}

HEADER_COORDINATES_KEYS ==
    {HEADER_COORDINATES_MAP[i].key : i \in 1..Len(HEADER_COORDINATES_MAP)}
    \cup UNION {Range(HEADER_COORDINATES_MAP[i].attrs) :
                    i \in 1..Len(HEADER_COORDINATES_MAP)}

ALL_KEYS ==
    Range(GLOBAL_ATTRIBUTES_KEYS) \cup Range(VARIABLE_ATTRIBUTES_KEYS)
    \cup Range(SPATIAL_COORDINATES_ATTRIBUTES_KEYS) \cup GRID_TYPE_KEYS
    \cup HEADER_COORDINATES_KEYS

----------------------------------------------------------------------------
(* The files the model reads.  A record carries its header keys and its    *)
(* decoded payload `values`.                                               *)

BaseRecord ==
    [edition |-> 1, centre |-> "ecmf", centreDescription |-> "ECMWF",
     paramId |-> 1, shortName |-> "t", units |-> "K", name |-> "Temperature",
     cfName |-> "air_temperature", missingValue |-> DefaultMissingValue,
     gridType |-> "reduced_gg", numberOfPoints |-> 1,
     N |-> 32, pl |-> 20, M |-> Undef, K |-> Undef, J |-> Undef,
     number |-> 0, totalNumber |-> 10, dataDate |-> 20170101, dataTime |-> 0,
     endStep |-> 0, stepUnits |-> 1, stepType |-> "instant",
     topLevel |-> 500, typeOfLevel |-> 100,
     values |-> <<5>>]

ParamIds == {1, 2}
ShortNames == {"t", "z"}
ShortNameOfParam(p) == IF p = 1 THEN "t" ELSE "z"
PayloadOfLength(n) == IF n = 1 THEN <<5>> ELSE <<5, 6>>

SeqsUpTo(S, n) == UNION {[1..m -> S] : m \in 0..n}

\* two parameters, up to three members each: the dimensions of a dataset
RecsDims ==
    {[BaseRecord EXCEPT !.paramId = p, !.shortName = ShortNameOfParam(p),
                        !.number = n] : p \in ParamIds, n \in {0, 1, 2}}
FilesDims ==
    {f \in SeqsUpTo(RecsDims, MaxRecsDims) :
        \A i, j \in 1..Len(f) : f[i] = f[j] => i = j}

\* one parameter on a member x level grid, two points per record, with
\* missing values in the payload
PayloadAt(n, l) ==
    IF n = 0 THEN (IF l = 500 THEN <<5, 9999>> ELSE <<7, 6>>)
    ELSE (IF l = 500 THEN <<9999, 7>> ELSE <<8, 8>>)
RecsArray(m) ==
    {[BaseRecord EXCEPT !.number = n, !.topLevel = l, !.numberOfPoints = 2,
                        !.missingValue = m, !.values = PayloadAt(n, l)] :
        n \in {0, 1}, l \in {500, 850}}
FilesArray == UNION {SeqsUpTo(RecsArray(m), MaxRecsArray) : m \in {9999, 7}}

\* records that differ in a key that is no coordinate of the variable
RecsDup ==
    {[BaseRecord EXCEPT !.edition = e, !.values = v] :
        e \in {1, 2}, v \in {<<5>>, <<6>>}}
FilesDup == SeqsUpTo(RecsDup, MaxRecsArray)

\* parameters, their short names and their payload lengths
RecsNames ==
    {[BaseRecord EXCEPT !.paramId = p, !.shortName = s, !.numberOfPoints = n,
                        !.values = PayloadOfLength(n)] :
        p \in ParamIds, s \in ShortNames, n \in {1, 2}}
FilesNames == SeqsUpTo(RecsNames, MaxRecsNames)

\* coordinates that the records do not carry, and ambiguous attributes
RecsCoord ==
    {[BaseRecord EXCEPT !.number = n, !.topLevel = l, !.typeOfLevel = t] :
        n \in {Undef, 0, 1}, l \in {Undef, 500}, t \in {100, 1}}
FilesCoord == SeqsUpTo(RecsCoord, MaxRecsCoord)

Files == FilesDims \cup FilesArray \cup FilesDup \cup FilesNames \cup FilesCoord

----------------------------------------------------------------------------
(* messages.Stream and messages.Index, from the design document *)

\* the header keys of a record, as the index scan captures them
HeaderOf(rec) == [k \in ALL_KEYS |-> rec[k]]

\* offsets.setdefault(header, []).append(offset)
AddOffset(offsets, header, offset) ==
    IF \E i \in 1..Len(offsets) : offsets[i].header = header
    THEN [i \in 1..Len(offsets) |->
            IF offsets[i].header = header
            THEN [offsets[i] EXCEPT !.offsets = Append(@, offset)]
            ELSE offsets[i]]
    ELSE Append(offsets, [header |-> header, offsets |-> <<offset>>])

RECURSIVE ScanFrom(_, _, _)
ScanFrom(stream, n, offsets) ==
    IF n > Len(stream) THEN offsets
    ELSE ScanFrom(stream, n + 1, AddOffset(offsets, HeaderOf(stream[n]), n))

\* Index.build: one pass over the stream; the buckets in first-seen order
StreamIndex(stream) == ScanFrom(stream, 1, << >>)

RECURSIVE DistinctFrom(_, _, _, _)
DistinctFrom(index, key, n, values) ==
    IF n > Len(index) THEN values
    ELSE DistinctFrom(index, key, n + 1,
            IF index[n].header[key] \in Range(values) THEN values
            ELSE Append(values, index[n].header[key]))

\* Index.attribute_values: the distinct values of a key, in first-seen
\* order; none for a key that is not in the schema
IndexGetitem(index, key) ==
    IF key \in ALL_KEYS THEN DistinctFrom(index, key, 1, << >>) ELSE << >>

\* Index.subindex: the buckets whose header has the value for the key
Subindex(index, key, value) ==
    LET Keep(b) == b.header[key] = value IN SelectSeq(index, Keep)

\* Message.fromfile(file, offset): the record at a byte offset
MessageAt(stream, offset) == stream[offset]

\* message['latitudes'], message['longitudes']: one value per grid point
Latitudes(rec) == [i \in 1..rec.numberOfPoints |-> i]
Longitudes(rec) == [i \in 1..rec.numberOfPoints |-> 10 * i]

----------------------------------------------------------------------------
(* Ordered dictionaries: sequences of [key, value] in insertion order *)

DictKeys(d) == [i \in 1..Len(d) |-> d[i].key]
DictHas(d, k) == \E i \in 1..Len(d) : d[i].key = k
DictGet(d, k) == d[CHOOSE i \in 1..Len(d) : d[i].key = k].value
DictSet(d, k, v) ==
    IF \E i \in 1..Len(d) : d[i].key = k
    THEN [i \in 1..Len(d) |-> IF d[i].key = k THEN [key |-> k, value |-> v] ELSE d[i]]
    ELSE Append(d, [key |-> k, value |-> v])

RECURSIVE DictUpdateFrom(_, _, _)
DictUpdateFrom(d, u, n) ==
    IF n > Len(u) THEN d
    ELSE DictUpdateFrom(DictSet(d, u[n].key, u[n].value), u, n + 1)
DictUpdate(d, u) == DictUpdateFrom(d, u, 1)

----------------------------------------------------------------------------
(* enforce_unique_attributes and simple_header_coordinate *)

\* the body of the loop, for one key and the values the index holds for it
EnforceKey(attributes, key, values) ==
    IF Len(values) > 1
    THEN [st |-> "ValueError", raised_by |-> "enforce_unique_attributes",
          key |-> key, values |-> values]
    ELSE [st |-> "ok",
          attributes |-> IF Len(values) > 0
                         THEN DictSet(attributes, key, values[1])
                         ELSE attributes]

RECURSIVE EnforceFrom(_, _, _, _)
EnforceNext(index, keys, n, r) ==
    IF r.st = "ok" THEN EnforceFrom(index, keys, n + 1, r.attributes) ELSE r
EnforceFrom(index, keys, n, attributes) ==
    IF n > Len(keys) THEN [st |-> "ok", attributes |-> attributes]
    ELSE EnforceNext(index, keys, n,
            EnforceKey(attributes, keys[n], IndexGetitem(index, keys[n])))

PickFirstKey(attributes, key, values) ==
    IF Len(values) > 0 THEN DictSet(attributes, key, values[1]) ELSE attributes

RECURSIVE PickFirstFrom(_, _, _, _)
PickFirstFrom(index, keys, n, attributes) ==
    IF n > Len(keys) THEN [st |-> "ok", attributes |-> attributes]
    ELSE PickFirstFrom(index, keys, n + 1,
            PickFirstKey(attributes, keys[n], IndexGetitem(index, keys[n])))

\* a variant that picks the first value of an ambiguous key
enforce_unique_attributes_PickFirst(index, attributes_keys) ==
    PickFirstFrom(index, attributes_keys, 1, << >>)

enforce_unique_attributes(index, attributes_keys) ==
    EnforceFrom(index, attributes_keys, 1, << >>)

\* return data, attributes
CoordinateOf(data, a) ==
    IF a.st = "ok"
    THEN [st |-> "ok", data |-> data, attributes |-> a.attributes]
    ELSE a

HeaderCoordinate(index, coordinate_key, attributes_keys, data) ==
    IF Len(data) = 1 /\ data[1] = Undef
    THEN [st |-> "CoordinateNotFound", key |-> coordinate_key]
    ELSE CoordinateOf(data, enforce_unique_attributes(index, attributes_keys))

\* a variant that keeps a coordinate whose only value is 'undef'
simple_header_coordinate_KeepUndef(index, coordinate_key, attributes_keys) ==
    CoordinateOf(IndexGetitem(index, coordinate_key),
                 enforce_unique_attributes(index, attributes_keys))

simple_header_coordinate(index, coordinate_key, attributes_keys) ==
    HeaderCoordinate(index, coordinate_key, attributes_keys,
                     IndexGetitem(index, coordinate_key))

----------------------------------------------------------------------------
(* DataVariable.__attrs_post_init__ *)

\* Variable(dimensions=dimensions, data=data, attributes=attributes); a
\* coordinate of one value is a scalar (data[0], no dimension), held here
\* as a sequence of length one
CoordinateVariable(coord_key, values, attributes) ==
    [kind |-> "Variable",
     dimensions |-> IF Len(values) = 1 THEN << >> ELSE <<coord_key>>,
     data |-> values,
     attributes |-> attributes]

\* the loop over HEADER_COORDINATES_MAP: a coordinate that is not found is
\* left out and the loop goes on; any other error ends the construction
RECURSIVE CoordinatesFrom(_, _, _)
CoordinatesNext(index, n, coordinates, coord_key, r) ==
    IF r.st = "CoordinateNotFound"
    THEN CoordinatesFrom(index, n + 1, coordinates)
    ELSE IF r.st = "ok"
    THEN CoordinatesFrom(index, n + 1,
            DictSet(coordinates, coord_key,
                    CoordinateVariable(coord_key, r.data, r.attributes)))
    ELSE r
CoordinatesFrom(index, n, coordinates) ==
    IF n > Len(HEADER_COORDINATES_MAP)
    THEN [st |-> "ok", coordinates |-> coordinates]
    ELSE CoordinatesNext(index, n, coordinates, HEADER_COORDINATES_MAP[n].key,
            simple_header_coordinate(index, HEADER_COORDINATES_MAP[n].key,
                                     HEADER_COORDINATES_MAP[n].attrs))

\* c.data.size
DataSize(c) == Len(c.data)

\* a variant that makes a dimension of every retained coordinate
VariableDimensions_AllRetained(coordinates) ==
    DictKeys(coordinates) \o <<"i">>

\* tuple(d for d, c in coordinates.items() if c.data.size > 1) + ('i',)
VariableDimensions(coordinates) ==
    LET Varying(e) == DataSize(e.value) > 1 IN
    DictKeys(SelectSeq(coordinates, Varying)) \o <<"i">>

\* the representative record: next(iter(self.stream))
Leader(stream) == stream[1]

\* tuple(coordinates[d].data.size for d in dimensions[:-1])
\*     + (leader['numberOfPoints'],)
VariableShape(coordinates, dimensions, leader) ==
    [d \in 1..(Len(dimensions) - 1) |->
        DataSize(DictGet(coordinates, dimensions[d]))]
    \o <<leader.numberOfPoints>>

RECURSIVE Product(_)
Product(s) == IF s = << >> THEN 1 ELSE Head(s) * Product(Tail(s))

\* the secondary coordinates, read from the representative record
WithLatLon(coordinates, leader) ==
    coordinates \o
    << [key |-> "lat",
        value |-> [kind |-> "Variable", dimensions |-> <<"i">>,
                   data |-> Latitudes(leader),
                   attributes |-> <<[key |-> "units", value |-> "degrees_north"]>>]],
       [key |-> "lon",
        value |-> [kind |-> "Variable", dimensions |-> <<"i">>,
                   data |-> Longitudes(leader),
                   attributes |-> <<[key |-> "units", value |-> "degrees_east"]>>]] >>

\* the end of the construction: attributes['coordinates'], dimensions, ndim,
\* shape, lat and lon, size
DataVariableOf(index, leader, attributes, coordinates, dimensions, shape) ==
    [st |-> "ok", kind |-> "DataVariable", index |-> index,
     attributes |-> DictSet(attributes, "coordinates",
                            DictKeys(coordinates) \o <<"lat", "lon">>),
     coordinates |-> WithLatLon(coordinates, leader),
     dimensions |-> dimensions, ndim |-> Len(dimensions),
     shape |-> shape, size |-> Product(shape)]

DataVariableDimensions(index, leader, attributes, coordinates, dimensions) ==
    DataVariableOf(index, leader, attributes, coordinates, dimensions,
                   VariableShape(coordinates, dimensions, leader))

DataVariableCoordinates(index, leader, attributes, cs) ==
    IF cs.st # "ok" THEN cs
    ELSE DataVariableDimensions(index, leader, attributes, cs.coordinates,
                                VariableDimensions(cs.coordinates))

\* self.attributes.update(enforce_unique_attributes(index, spatial keys))
DataVariableSpatial(index, leader, attributes, a2) ==
    IF a2.st # "ok" THEN a2
    ELSE DataVariableCoordinates(index, leader,
            DictUpdate(attributes, a2.attributes),
            CoordinatesFrom(index, 1, << >>))

\* SPATIAL_COORDINATES_ATTRIBUTES_KEYS[:] extended by
\* GRID_TYPE_MAP.get(leader['gridType'], [])
SpatialAttributesKeys(leader) ==
    SPATIAL_COORDINATES_ATTRIBUTES_KEYS \o
    (IF leader.gridType \in DOMAIN GRID_TYPE_MAP
     THEN GRID_TYPE_MAP[leader.gridType] ELSE << >>)

\* self.attributes = enforce_unique_attributes(index, VARIABLE_ATTRIBUTES_KEYS)
DataVariableAttributes(index, leader, a1) ==
    IF a1.st # "ok" THEN a1
    ELSE DataVariableSpatial(index, leader, a1.attributes,
            enforce_unique_attributes(index, SpatialAttributesKeys(leader)))

\* DataVariable(index=index, stream=stream); next(iter(stream)) raises on a
\* stream of no record
DataVariable(index, stream) ==
    IF Len(stream) = 0
    THEN [st |-> "StopIteration", raised_by |-> "DataVariable"]
    ELSE DataVariableAttributes(index, Leader(stream),
            enforce_unique_attributes(index, VARIABLE_ATTRIBUTES_KEYS))

----------------------------------------------------------------------------
(* DataVariable.build_array and the DataArray.data property *)

\* the multi-indexes of an array over the given sizes
RECURSIVE MultiIndexes(_)
MultiIndexes(sizes) ==
    IF sizes = << >> THEN {<< >>}
    ELSE {<<i>> \o t : i \in 1..Head(sizes), t \in MultiIndexes(Tail(sizes))}

\* an array: multi-index over the leading dimensions |-> the row along the
\* trailing one
FullOf(shape, fill_value) ==
    [s \in MultiIndexes(SubSeq(shape, 1, Len(shape) - 1)) |->
        [i \in 1..shape[Len(shape)] |-> fill_value]]

\* a variant that allocates zeros
Full_Zeros(shape) == FullOf(shape, 0)

\* np.full(self.shape, fill_value=np.nan, dtype=self.dtype)
Full(shape) == FullOf(shape, NaN)

\* the order of Python lists: lexicographic
RECURSIVE ListLess(_, _)
ListLess(a, b) ==
    IF b = << >> THEN FALSE
    ELSE IF a = << >> THEN TRUE
    ELSE IF Head(a) # Head(b) THEN Head(a) < Head(b)
    ELSE ListLess(Tail(a), Tail(b))

RECURSIVE InsertByOffsets(_, _)
InsertByOffsets(sorted, item) ==
    IF sorted = << >> THEN <<item>>
    ELSE IF ListLess(item.offsets, Head(sorted).offsets)
    THEN <<item>> \o sorted
    ELSE <<Head(sorted)>> \o InsertByOffsets(Tail(sorted), item)

RECURSIVE SortedFrom(_, _, _)
SortedFrom(items, n, sorted) ==
    IF n > Len(items) THEN sorted
    ELSE SortedFrom(items, n + 1, InsertByOffsets(sorted, items[n]))

\* sorted(self.index.offsets.items(), key=lambda x: x[1]): stable, on the
\* lists of offsets
SortedByOffsets(index) == SortedFrom(index, 1, << >>)

\* list.index(value): the first position of the value
ListIndex(list, value) ==
    CHOOSE i \in 1..Len(list) :
        list[i] = value /\ \A j \in 1..(i - 1) : list[j] # value

\* the multi-index of a header along the variable's leading dimensions
HeaderIndexes(v, header_values) ==
    [d \in 1..(Len(v.dimensions) - 1) |->
        ListIndex(DictGet(v.coordinates, v.dimensions[d]).data,
                  header_values[v.dimensions[d]])]

\* data.__setitem__(tuple(header_indexes + [slice(None, None)]), values):
\* numpy copies a payload of the row's length, repeats a payload of one
\* element along the row, and raises for any other length
SetItem(data, header_indexes, values) ==
    IF Len(values) = Len(data[header_indexes])
    THEN [st |-> "ok", data |-> [data EXCEPT ![header_indexes] = values]]
    ELSE IF Len(values) = 1
    THEN [st |-> "ok",
          data |-> [data EXCEPT ![header_indexes] =
                        [i \in 1..Len(data[header_indexes]) |-> values[1]]]]
    ELSE [st |-> "ValueError", raised_by |-> "build_array"]

\* the loop over the sorted buckets: one record is read for each bucket,
\* the one at the bucket's first offset (offset[0])
RECURSIVE FillFrom(_, _, _, _, _)
FillNext(v, stream, items, n, r) ==
    IF r.st = "ok" THEN FillFrom(v, stream, items, n + 1, r.data) ELSE r
FillFrom(v, stream, items, n, data) ==
    IF n > Len(items) THEN [st |-> "ok", data |-> data]
    ELSE FillNext(v, stream, items, n,
            SetItem(data, HeaderIndexes(v, items[n].header),
                    MessageAt(stream, items[n].offsets[1]).values))

\* self.attributes.get('missingValue', 9999)
MissingValue(v) ==
    IF DictHas(v.attributes, "missingValue")
    THEN DictGet(v.attributes, "missingValue")
    ELSE DefaultMissingValue

\* a variant that leaves the missing values in the array
MaskMissing_Keep(data, missing_value) == data

\* data[data == missing_value] = np.nan
MaskMissing(data, missing_value) ==
    [s \in DOMAIN data |->
        [i \in DOMAIN data[s] |->
            IF data[s][i] = missing_value THEN NaN ELSE data[s][i]]]

Masked(v, r) ==
    IF r.st = "ok"
    THEN [st |-> "ok", data |-> MaskMissing(r.data, MissingValue(v))]
    ELSE r

build_array(v, stream) ==
    Masked(v, FillFrom(v, stream, SortedByOffsets(v.index), 1, Full(v.shape)))

NoData == [st |-> "unset"]

\* self._data = self.build_array(): nothing is kept when build_array raises.
\* An array object is named by the number of the run that made it.
Built(c, b, r) ==
    IF r.st = "ok"
    THEN [cache |-> [st |-> "set", id |-> b + 1, array |-> r.data],
          builds |-> b + 1, st |-> "ok"]
    ELSE [cache |-> c, builds |-> b + 1, st |-> r.st]

\* DataArray.data: build the array when the object has no _data yet, keep
\* it, and return it
DataProperty(v, stream, c, b) ==
    IF c.st = "unset" THEN Built(c, b, build_array(v, stream))
    ELSE [cache |-> c, builds |-> b, st |-> "ok"]

----------------------------------------------------------------------------
(* dict_merge and build_dataset_components *)

RECURSIVE OverwriteFrom(_, _, _)
OverwriteFrom(master, update, n) ==
    IF n > Len(update) THEN [st |-> "ok", dict |-> master]
    ELSE OverwriteFrom(DictSet(master, update[n].key, update[n].value),
                       update, n + 1)

\* a variant that overwrites a key whose new value is different
dict_merge_Overwrite(master, update) == OverwriteFrom(master, update, 1)

RECURSIVE MergeFrom(_, _, _)
MergeFrom(master, update, n) ==
    IF n > Len(update) THEN [st |-> "ok", dict |-> master]
    ELSE IF ~DictHas(master, update[n].key)
    THEN MergeFrom(DictSet(master, update[n].key, update[n].value), update, n + 1)
    ELSE IF DictGet(master, update[n].key) = update[n].value
    THEN MergeFrom(master, update, n + 1)
    ELSE [st |-> "ValueError", raised_by |-> "dict_merge",
          key |-> update[n].key]

dict_merge(master, update) == MergeFrom(master, update, 1)

Min(a, b) == IF a < b THEN a ELSE b

\* zip(a, b): as many pairs as the shorter list has entries
Zip(a, b) == [i \in 1..Min(Len(a), Len(b)) |-> [key |-> a[i], value |-> b[i]]]

\* collections.OrderedDict([(short_name, var)]) updated by var.coordinates
VariablesOf(short_name, v) ==
    DictUpdate(<<[key |-> short_name, value |-> v]>>, v.coordinates)

\* the loop over zip(param_ids, index['shortName']); pairs[n] holds a
\* param_id as key and a short_name as value
RECURSIVE ComponentsFrom(_, _, _, _, _, _)
MergedVariables(stream, index, pairs, n, dimensions, mv) ==
    IF mv.st # "ok" THEN [mv EXCEPT !.raised_by = "dict_merge(variables)"]
    ELSE ComponentsFrom(stream, index, pairs, n + 1, dimensions, mv.dict)
MergedDimensions(stream, index, pairs, n, variables, vs, md) ==
    IF md.st # "ok" THEN [md EXCEPT !.raised_by = "dict_merge(dimensions)"]
    ELSE MergedVariables(stream, index, pairs, n, md.dict,
                         dict_merge(variables, vs))
MergeVariable(stream, index, pairs, n, dimensions, variables, v) ==
    IF v.st # "ok" THEN v
    ELSE MergedDimensions(stream, index, pairs, n, variables,
            VariablesOf(pairs[n].value, v),
            dict_merge(dimensions, Zip(v.dimensions, v.shape)))
GlobalAttributes(dimensions, variables, a) ==
    IF a.st # "ok" THEN a
    ELSE [st |-> "ok", dimensions |-> dimensions, variables |-> variables,
          attributes |-> DictSet(a.attributes, "eccodesGribVersion", VERSION)]
ComponentsFrom(stream, index, pairs, n, dimensions, variables) ==
    IF n > Len(pairs)
    THEN GlobalAttributes(dimensions, variables,
            enforce_unique_attributes(index, GLOBAL_ATTRIBUTES_KEYS))
    ELSE MergeVariable(stream, index, pairs, n, dimensions, variables,
            DataVariable(Subindex(index, "paramId", pairs[n].key), stream))

ComponentsOf(stream, index) ==
    ComponentsFrom(stream, index,
                   Zip(IndexGetitem(index, "paramId"),
                       IndexGetitem(index, "shortName")),
                   1, << >>, << >>)

build_dataset_components(stream) == ComponentsOf(stream, StreamIndex(stream))

----------------------------------------------------------------------------
(* The state machine.  A behaviour opens one file and follows one call     *)
(* chain on it: the build of the dataset, or the construction of one       *)
(* variable and accesses to its data, or one call of                       *)
(* enforce_unique_attributes.  The calls share no mutable state.           *)

NotCalled == [st |-> "not called"]

\* paramIds a caller asks for: those of the files and one that no record has
AskedParamIds == ParamIds \cup {3}

\* key lists handed to enforce_unique_attributes
KeyLists ==
    {GLOBAL_ATTRIBUTES_KEYS, <<"number", "topLevel">>,
     <<"topLevel", "typeOfLevel", "number">>, <<"shortName", "paramId">>}

\* the items a caller indexes a variable with
Items(v) ==
    IF v.st = "ok" THEN MultiIndexes(SubSeq(v.shape, 1, Len(v.shape) - 1))
    ELSE {}

Init ==
    /\ file \in Files
    /\ dataset = NotCalled
    /\ asked = 0
    /\ var = NotCalled
    /\ cache = NoData
    /\ builds = 0
    /\ accesses = 0
    /\ ret = NotCalled
    /\ eu = NotCalled

Fresh == dataset.st = "not called" /\ var.st = "not called" /\ eu.st = "not called"

\* Dataset.__attrs_post_init__: build_dataset_components(self.stream)
BuildDataset ==
    /\ Fresh
    /\ dataset' = build_dataset_components(file)
    /\ UNCHANGED <<file, asked, var, cache, builds, accesses, ret, eu>>

\* DataVariable.fromstream(paramId, path)
FromStream(paramId) ==
    /\ Fresh
    /\ asked' = paramId
    /\ var' = DataVariable(Subindex(StreamIndex(file), "paramId", paramId), file)
    /\ UNCHANGED <<file, dataset, cache, builds, accesses, ret, eu>>

\* what an access returns: the array, or the item of it, or the error
Returned(op, item, r) ==
    IF r.st # "ok" THEN [st |-> r.st, op |-> op]
    ELSE [st |-> "ok", op |-> op, id |-> r.cache.id,
          value |-> IF op = "data" THEN r.cache.array ELSE r.cache.array[item]]

Access(op, item, r) ==
    /\ cache' = r.cache
    /\ builds' = r.builds
    /\ ret' = Returned(op, item, r)
    /\ accesses' = accesses + 1
    /\ UNCHANGED <<file, dataset, asked, var, eu>>

\* variable.data
Data ==
    /\ var.st = "ok"
    /\ accesses < MaxAccess
    /\ Access("data", << >>, DataProperty(var, file, cache, builds))

\* variable[item]: self.data[item], for a multi-index over the leading
\* dimensions
GetItem(item) ==
    /\ var.st = "ok"
    /\ accesses < MaxAccess
    /\ Access("getitem", item, DataProperty(var, file, cache, builds))

EnforceUniqueOn(paramId, keys, index) ==
    eu' = [st |-> "called", paramId |-> paramId, keys |-> keys,
           result |-> enforce_unique_attributes(index, keys)]

\* enforce_unique_attributes(index, keys) on the file's index (paramId 0)
\* or on the sub-index of a parameter
EnforceUnique(paramId, keys) ==
    /\ Fresh
    /\ EnforceUniqueOn(paramId, keys,
            IF paramId = 0 THEN StreamIndex(file)
            ELSE Subindex(StreamIndex(file), "paramId", paramId))
    /\ UNCHANGED <<file, dataset, asked, var, cache, builds, accesses, ret>>

Next ==
    \/ BuildDataset
    \/ \E p \in AskedParamIds : FromStream(p)
    \/ Data
    \/ \E item \in Items(var) : GetItem(item)
    \/ \E p \in {0, 1, 3}, keys \in KeyLists : EnforceUnique(p, keys)

Spec == Init /\ [][Next]_vars

----------------------------------------------------------------------------
(* What the file holds, stated on its records and not through the index *)

COORDINATE_KEYS == <<"number", "dataDate", "dataTime", "endStep", "topLevel">>

\* the offsets of the records of a parameter; parameter 0 stands for all
OffsetsOf(p) == {i \in 1..Len(file) : p = 0 \/ file[i].paramId = p}

ValuesOf(p, key) == {file[i][key] : i \in OffsetsOf(p)}

FirstOffset(p, key, value) ==
    CHOOSE i \in OffsetsOf(p) :
        /\ file[i][key] = value
        /\ \A j \in OffsetsOf(p) : file[j][key] = value => i <= j

\* the position of a value among the distinct values of a key, in the order
\* in which the scan meets them
PositionOf(p, key, value) ==
    1 + Cardinality({w \in ValuesOf(p, key) :
                        FirstOffset(p, key, w) < FirstOffset(p, key, value)})

IsOrderedDistinct(p, key, data) ==
    /\ Len(data) = Cardinality(ValuesOf(p, key))
    /\ \A n \in 1..Len(data) :
        data[n] \in ValuesOf(p, key) /\ PositionOf(p, key, data[n]) = n

\* the variables built so far, each with the parameter it was built for
BuiltVariables ==
    (IF var.st = "ok" THEN {[p |-> asked, v |-> var]} ELSE {})
    \cup
    (IF dataset.st = "ok"
     THEN {[p |-> DictGet(e.value.attributes, "paramId"), v |-> e.value] :
            e \in {x \in Range(dataset.variables) : x.value.kind = "DataVariable"}}
     ELSE {})

\* the multi-index of the record at an offset in the array of a variable
SlotOf(p, v, i) ==
    [d \in 1..(Len(v.dimensions) - 1) |->
        PositionOf(p, v.dimensions[d], file[i][v.dimensions[d]])]

\* a payload after the substitution of the missing value
Substituted(values, missing_value) ==
    [k \in 1..Len(values) |->
        IF values[k] = missing_value THEN NaN ELSE values[k]]

----------------------------------------------------------------------------
(* C3 *)

VaryingCoordinate(p, key) ==
    ValuesOf(p, key) # {Undef} /\ Cardinality(ValuesOf(p, key)) > 1

ScalarCoordinate(p, key) ==
    ValuesOf(p, key) # {Undef} /\ Cardinality(ValuesOf(p, key)) = 1

ExpectedDimensions(p) ==
    LET Varying(key) == VaryingCoordinate(p, key) IN
    SelectSeq(COORDINATE_KEYS, Varying) \o <<"i">>

\* C3: the dimensions of every built variable are the retained coordinate
\* keys with more than one distinct value, in the order number, dataDate,
\* dataTime, endStep, topLevel, followed by 'i'; a retained coordinate with
\* one distinct value is a scalar coordinate without dimension and is no
\* dimension of the variable.
C3_Dimensions ==
    \A b \in BuiltVariables :
        /\ b.v.dimensions = ExpectedDimensions(b.p)
        /\ \A key \in Range(COORDINATE_KEYS) :
            ScalarCoordinate(b.p, key) =>
                /\ DictHas(b.v.coordinates, key)
                /\ DictGet(b.v.coordinates, key).dimensions = << >>
                /\ Len(DictGet(b.v.coordinates, key).data) = 1
                /\ key \notin Range(b.v.dimensions)

\* a variable over two members and two levels, its date a scalar
C3_Witness ==
    /\ var.st = "ok"
    /\ var.dimensions = <<"number", "topLevel", "i">>
    /\ ScalarCoordinate(asked, "dataDate")

----------------------------------------------------------------------------
(* C8 *)

\* C8: a coordinate key whose only observed value is 'undef' is left out
\* of the coordinates and the dimensions of the variable, the later keys
\* are still processed and the construction does not fail for it; for any
\* other observed values the coordinate is retained with the ordered
\* distinct values of the index.
C8_CoordinateNotFound ==
    /\ var.st # "CoordinateNotFound"
    /\ dataset.st # "CoordinateNotFound"
    /\ \A b \in BuiltVariables :
        \A key \in Range(COORDINATE_KEYS) :
            IF ValuesOf(b.p, key) = {Undef}
            THEN /\ ~DictHas(b.v.coordinates, key)
                 /\ key \notin Range(b.v.dimensions)
            ELSE /\ DictHas(b.v.coordinates, key)
                 /\ IsOrderedDistinct(b.p, key, DictGet(b.v.coordinates, key).data)

\* a variable whose records carry no member number and two levels
C8_Witness ==
    /\ var.st = "ok"
    /\ ValuesOf(asked, "number") = {Undef}
    /\ ~DictHas(var.coordinates, "number")
    /\ "topLevel" \in Range(var.dimensions)

----------------------------------------------------------------------------
(* C4, C5, C9: the materialized array of the variable `var` *)

Materialized == var.st = "ok" /\ cache.st = "set"

RecordsAt(slot) == {i \in OffsetsOf(asked) : SlotOf(asked, var, i) = slot}

AloneInSlot(i) == RecordsAt(SlotOf(asked, var, i)) = {i}

\* the payload laid along a row of n elements: itself, or its one element
\* repeated
AlongRow(values, n) ==
    [k \in 1..n |-> IF Len(values) = 1 THEN values[1] ELSE values[k]]

C5_NoRecordIsNaN ==
    Materialized =>
        \A slot \in DOMAIN cache.array :
            RecordsAt(slot) = {} =>
                \A k \in DOMAIN cache.array[slot] : cache.array[slot][k] = NaN

\* an array with a filled slot and a slot without record
C5_Witness ==
    /\ Materialized
    /\ \E slot \in DOMAIN cache.array : RecordsAt(slot) = {}
    /\ \E slot \in DOMAIN cache.array : RecordsAt(slot) # {}

Greatest(S) == CHOOSE i \in S : \A j \in S : j <= i

\* C9 as stated: a slot to which records of the sub-index map holds the
\* payload of the record with the greatest offset among them (payloads of
\* the row's length).
C9_LastRecordWins ==
    Materialized =>
        \A slot \in DOMAIN cache.array :
            (/\ RecordsAt(slot) # {}
             /\ \A i \in RecordsAt(slot) :
                    Len(file[i].values) = Len(cache.array[slot]))
            => cache.array[slot] =
                    Substituted(file[Greatest(RecordsAt(slot))].values,
                                file[Greatest(RecordsAt(slot))].missingValue)

----------------------------------------------------------------------------
(* C6 *)

\* C6 as stated: over any sequence of accesses build_array runs at most
\* once, and an access after the first returns the array object of the
\* first.
C6_BuiltOnce ==
    /\ builds <= 1
    /\ accesses >= 2 => (ret.st = "ok" /\ ret.id = 1)

----------------------------------------------------------------------------
(* C1 *)

Least(S) == CHOOSE i \in S : \A j \in S : i <= j

\* the positions in a key list of the keys with two or more values
AmbiguousAt(p, keys) ==
    {n \in 1..Len(keys) : Cardinality(ValuesOf(p, keys[n])) >= 2}

\* the keys of a list with exactly one value, in the order of the list
SingleValued(p, keys) ==
    LET Single(key) == Cardinality(ValuesOf(p, key)) = 1 IN
    SelectSeq(keys, Single)

\* a mapping holds each single-valued key of the list with its value, in
\* the order of the list, and no other key
MapsSingleValued(p, keys, attributes) ==
    /\ DictKeys(attributes) = SingleValued(p, keys)
    /\ \A n \in 1..Len(attributes) :
        ValuesOf(p, attributes[n].key) = {attributes[n].value}

\* C1 as stated: for every key with two or more values the call raises an
\* error naming that key and returns no mapping; otherwise the result maps
\* the keys with one value, in the order given, and no other key.
C1_Original ==
    eu.st = "called" =>
        /\ \A n \in AmbiguousAt(eu.paramId, eu.keys) :
            /\ eu.result.st = "ValueError"
            /\ eu.result.key = eu.keys[n]
        /\ eu.result.st = "ok" =>
            MapsSingleValued(eu.paramId, eu.keys, eu.result.attributes)

\* C1, amended: when some key of the list has two or more values the call
\* raises an error naming the first such key of the list and returns no
\* mapping; otherwise the result maps each key with exactly one value to
\* that value, leaves out the keys without value, holds no key outside the
\* list and keeps the order of the list.
C1_EnforceUnique ==
    eu.st = "called" =>
        IF AmbiguousAt(eu.paramId, eu.keys) # {}
        THEN /\ eu.result.st = "ValueError"
             /\ eu.result.key = eu.keys[Least(AmbiguousAt(eu.paramId, eu.keys))]
             /\ "attributes" \notin DOMAIN eu.result
        ELSE /\ eu.result.st = "ok"
             /\ MapsSingleValued(eu.paramId, eu.keys, eu.result.attributes)

\* a call that raises on a list with two ambiguous keys
C1_Witness ==
    /\ eu.st = "called"
    /\ Cardinality(AmbiguousAt(eu.paramId, eu.keys)) = 2
    /\ eu.result.st = "ValueError"

----------------------------------------------------------------------------
(* C2, C7, C10: the outcome of build_dataset_components *)

\* the parameters the build makes a variable of: as many of the distinct
\* paramIds, in scan order, as there are distinct shortNames
MergedParams ==
    {p \in ValuesOf(0, "paramId") :
        /\ PositionOf(0, "paramId", p) <= Cardinality(ValuesOf(0, "shortName"))}

VariableFor(p) ==
    DataVariable(Subindex(StreamIndex(file), "paramId", p), file)

\* the dimensions the merged variables declare, each with its size
DeclaredOf(v) ==
    IF v.st = "ok"
    THEN {[name |-> v.dimensions[d], size |-> v.shape[d]] :
            d \in 1..Len(v.dimensions)}
    ELSE {}

Declared == UNION {DeclaredOf(VariableFor(p)) : p \in MergedParams}

ConflictIn(declared) ==
    \E a, b \in declared : a.name = b.name /\ a.size # b.size

AgreesWith(dimensions, declared) ==
    /\ \A a \in declared :
        DictHas(dimensions, a.name) /\ DictGet(dimensions, a.name) = a.size
    /\ \A n \in 1..Len(dimensions) :
        \E a \in declared : a.name = dimensions[n].key

MergeOutcome(declared) ==
    IF ConflictIn(declared)
    THEN dataset.st # "ok"
    ELSE /\ dataset.st = "ValueError" =>
                dataset.raised_by # "dict_merge(dimensions)"
         /\ dataset.st = "ok" => AgreesWith(dataset.dimensions, declared)

\* C2: when two of the merged variables declare one dimension name with
\* different sizes the build raises and returns no triple; when every
\* shared name has one size the merge of the dimensions does not raise and
\* the dimensions of the dataset hold that size for the name.
C2_DimensionMerge ==
    dataset.st # "not called" => MergeOutcome(Declared)

\* a build that the merge of the dimensions ends
C2_Witness ==
    /\ dataset.st = "ValueError"
    /\ dataset.raised_by = "dict_merge(dimensions)"
    /\ Cardinality(ValuesOf(1, "number")) > 1
    /\ Cardinality(ValuesOf(2, "number")) > 1

DataVariablesAt ==
    {n \in 1..Len(dataset.variables) :
        dataset.variables[n].value.kind = "DataVariable"}

\* C7 as stated: after a successful build the variables hold one data
\* variable for every distinct paramId of the file, under the shortName of
\* the records of that paramId, in the order in which the paramIds are met.
C7_OneVariablePerParam ==
    dataset.st = "ok" =>
        /\ \A p \in ValuesOf(0, "paramId") :
            \E n \in DataVariablesAt :
                /\ DictGet(dataset.variables[n].value.attributes, "paramId") = p
                /\ ValuesOf(p, "shortName") = {dataset.variables[n].key}
        /\ \A n \in DataVariablesAt :
            /\ dataset.variables[n].key =
                    DictGet(dataset.variables[n].value.attributes, "shortName")
            /\ \A m \in DataVariablesAt :
                m < n =>
                    PositionOf(0, "paramId",
                        DictGet(dataset.variables[m].value.attributes, "paramId"))
                    < PositionOf(0, "paramId",
                        DictGet(dataset.variables[n].value.attributes, "paramId"))

ShapeOfOwnRecords(p, v) ==
    /\ Len(v.shape) = Len(v.dimensions)
    /\ \A d \in 1..(Len(v.dimensions) - 1) :
        v.shape[d] = Cardinality(ValuesOf(p, v.dimensions[d]))
    /\ v.shape[Len(v.shape)] = file[Least(OffsetsOf(p))].numberOfPoints

\* C10 as stated: the shape of every variable of a built dataset has, for
\* each leading dimension, the number of distinct values of the coordinate
\* and, for the trailing dimension, the payload length of the first record
\* of the variable's own sub-index.
C10_ShapeOfOwnRecords ==
    dataset.st = "ok" =>
        \A n \in DataVariablesAt :
            ShapeOfOwnRecords(
                DictGet(dataset.variables[n].value.attributes, "paramId"),
                dataset.variables[n].value)

====
